---- MODULE Spec2Model ----
(***************************************************************************)
(* LightNovelScraper: the chapter driver loop, the retrying chapter        *)
(* fetcher, the rate limiter and the paragraph classifier, in the two      *)
(* variants of the repository:                                             *)
(*   "full"   - src/LightNovelScraper.py                                   *)
(*   "simple" - src/lightnovelScraper_Simple.py                            *)
(* Spec is a whole run of main() and SpecFair the same run with its steps  *)
(* taken; SpecLimiter is a RateLimiter driven on its own; SpecClassifier   *)
(* is the classifier, the formatter and the chapter document applied to    *)
(* one content container; SpecTitle is the derivation of a chapter title.  *)
(* Time is counted in ticks of 25 ms.  Text is a sequence of one-character *)
(* strings, so that startswith, in and the regular expressions are         *)
(* computed.                                                               *)
(***************************************************************************)
EXTENDS Integers, Sequences, FiniteSets, TLC

VARIABLES
    variant,            \* which of the two programs runs
    Config,             \* the global configuration flags
    args,               \* the command line and what the user will type
    inputs,             \* get_user_input's result: start_chapter, end_chapter, url_valid
    pc,                 \* position of the driver / fetcher
    chapter_num,        \* the driver's loop variable
    attempt,            \* get_chapter_content's loop variable
    rate_limiter,       \* RateLimiter: last_request_times, failed_attempts
    result,             \* what get_chapter_content returned
    chapters_data,      \* the driver's list of chapter records
    progress,           \* ProgressTracker / the driver's request counters
    epub_file,          \* "none", "written" or "write_error"
    book,               \* the chapter documents added to the e-book
    message,            \* the final user-visible message
    gets,               \* history: GETs issued for the current chapter
    kinds,              \* history: the current chapter's attempts in short
    sleeps,             \* history: retry sleeps of the current chapter, seconds
    fail_log,           \* history: failed attempts since the last success
    wait_log,           \* history: the last RateLimiter.wait() call
    release_log,        \* history: when the last two wait() calls returned
    outcomes,           \* history: what each finished chapter returned
    fragment,           \* a content container handed to the classifier
    classified,         \* what each call of the classifier on it returned
    titled              \* a call of _process_chapter_title: arguments and result

vars == <<variant, Config, args, inputs, pc, chapter_num, attempt, rate_limiter,
          result, chapters_data, progress, epub_file, message, gets, kinds,
          sleeps, fail_log, wait_log, release_log, outcomes, fragment, classified,
          titled, book>>

----------------------------------------------------------------------------
(* Bounds of the model *)

MaxChapters == 3        \* chapter numbers are 1..MaxChapters
MaxFailures == 10       \* the failure counter of a limiter driven on its own

----------------------------------------------------------------------------
(* Program constants *)

MAX_RETRIES == 3
RetryBaseSeconds == 5
PenaltyCapSeconds == 300
DequeMaxLen == 10

\* time is counted in ticks of 25 ms
Seconds(n) == n * 40

\* 1.0 / requests_per_second, in ticks: 20 requests/s and 2 requests/s
min_interval(v) == IF v = "full" THEN 2 ELSE 20

\* durations of one GET plus its parsing, in ticks: shorter and longer than
\* either variant's min_interval
FetchTicks == {1, 25}

Min(a, b) == IF a < b THEN a ELSE b
Max(a, b) == IF a > b THEN a ELSE b

----------------------------------------------------------------------------
(* Strings: sequences of one-character strings *)

Digits == {"0", "1", "2", "3", "4", "5", "6", "7", "8", "9"}
Digits19 == Digits \ {"0"}
Whitespace == {" ", "\n", "\t"}
RetMark == "RET"    \* the footnote-return character U+21A9

Lower(c) ==
    CASE c = "A" -> "a" [] c = "B" -> "b" [] c = "C" -> "c" [] c = "D" -> "d"
      [] c = "E" -> "e" [] c = "F" -> "f" [] c = "G" -> "g" [] c = "H" -> "h"
      [] c = "I" -> "i" [] c = "J" -> "j" [] c = "K" -> "k" [] c = "L" -> "l"
      [] c = "M" -> "m" [] c = "N" -> "n" [] c = "O" -> "o" [] c = "P" -> "p"
      [] c = "Q" -> "q" [] c = "R" -> "r" [] c = "S" -> "s" [] c = "T" -> "t"
      [] c = "U" -> "u" [] c = "V" -> "v" [] c = "W" -> "w" [] c = "X" -> "x"
      [] c = "Y" -> "y" [] c = "Z" -> "z" [] OTHER -> c

StrLower(s) == [i \in 1..Len(s) |-> Lower(s[i])]

RECURSIVE LStrip(_)
LStrip(s) == IF s # <<>> /\ Head(s) \in Whitespace THEN LStrip(Tail(s)) ELSE s

RECURSIVE RStrip(_)
RStrip(s) ==
    IF s # <<>> /\ s[Len(s)] \in Whitespace
    THEN RStrip(SubSeq(s, 1, Len(s) - 1)) ELSE s

Strip(s) == RStrip(LStrip(s))

StartsWith(s, pre) ==
    /\ Len(pre) <= Len(s)
    /\ SubSeq(s, 1, Len(pre)) = pre

Contains(s, sub) ==
    \E i \in 1..(Len(s) - Len(sub) + 1) : SubSeq(s, i, i + Len(sub) - 1) = sub

AllDigits(s) == Len(s) > 0 /\ \A i \in 1..Len(s) : s[i] \in Digits

s_TL == <<"T", "/", "L", ":">>
s_TN == <<"T", "/", "N", ":">>
s_ChapterNote == <<"C", "h", "a", "p", "t", "e", "r", " ", "N", "o", "t", "e", ":">>
s_ThanksForPlaying == <<"T", "h", "a", "n", "k", "s", " ", "f", "o", "r", " ", "p", "l", "a", "y", "i", "n", "g">>
s_AsAlways == <<"A", "s", " ", "a", "l", "w", "a", "y", "s">>
s_chapter == <<"c", "h", "a", "p", "t", "e", "r">>
s_Chapter_ == <<"C", "h", "a", "p", "t", "e", "r", " ">>
s_sep == <<"|", "|">>

DigitChar(d) ==
    CASE d = 0 -> "0" [] d = 1 -> "1" [] d = 2 -> "2" [] d = 3 -> "3"
      [] d = 4 -> "4" [] d = 5 -> "5" [] d = 6 -> "6" [] d = 7 -> "7"
      [] d = 8 -> "8" [] d = 9 -> "9"

\* str(n) of a non-negative integer
RECURSIVE NumStr(_)
NumStr(n) == IF n < 10 THEN <<DigitChar(n)>>
             ELSE NumStr(n \div 10) \o <<DigitChar(n % 10)>>

----------------------------------------------------------------------------
(* Dictionaries with insertion order: sequences of <<key, value>> *)

DictKeys(d) == {d[i][1] : i \in 1..Len(d)}

\* d[k] = v : a new key is appended, an existing key keeps its position
DictSet(d, k, v) ==
    IF k \in DictKeys(d)
    THEN [i \in 1..Len(d) |-> IF d[i][1] = k THEN <<k, v>> ELSE d[i]]
    ELSE Append(d, <<k, v>>)

----------------------------------------------------------------------------
(* The classifier of the full variant *)

\* _clean_html_content: the <!--sse--> regions and the ad selectors
NoiseFull == {"sse", "script", "CTGIiSmv", "L-MHncuP", "vm-placement",
              "data-defid", "data-mobid"}

\* the selectors the simple variant decomposes
NoiseSimple == {"script", "ins", "iframe", "adsbox", "ads", "ad-container",
                "aoyveLDZ", "vm-placement", "data-defid"}

_clean_html_content(paras) == SelectSeq(paras, LAMBDA p : p.within \notin NoiseFull)

CleanSimple(paras) == SelectSeq(paras, LAMBDA p : p.within \notin NoiseSimple)

\* ^\d+$ , ^chapter\s+\d+$ , ^\d+\.?$ matched on text.strip().lower()
_is_chapter_number(text) ==
    LET t == StrLower(Strip(text))
        rest == SubSeq(t, Len(s_chapter) + 1, Len(t))
    IN  \/ AllDigits(t)
        \/ /\ StartsWith(t, s_chapter)
           /\ rest # <<>> /\ Head(rest) \in Whitespace
           /\ AllDigits(LStrip(rest))
        \/ /\ Len(t) > 1 /\ t[Len(t)] = "."
           /\ AllDigits(SubSeq(t, 1, Len(t) - 1))

StrongNoteTypes ==
    {<<"t", "r", "a", "n", "s", "l", "a", "t", "o", "r", "'", "s", " ", "n", "o", "t", "e">>,
     <<"t", "r", "a", "n", "s", "l", "a", "t", "o", "r", " ", "n", "o", "t", "e">>,
     <<"c", "h", "a", "p", "t", "e", "r", " ", "n", "o", "t", "e">>,
     <<"t", "/", "n">>,
     <<"n", "o", "t", "e">>}

TextNotePatterns ==
    {<<"t", "/", "n", ":">>,
     <<"t", "n", ":">>,
     <<"t", "/", "l", ":">>,
     <<"t", "l", ":">>,
     <<"t", "r", "a", "n", "s", "l", "a", "t", "o", "r", "'", "s", " ", "n", "o", "t", "e", ":">>,
     <<"t", "r", "a", "n", "s", "l", "a", "t", "o", "r", " ", "n", "o", "t", "e", ":">>,
     <<"c", "h", "a", "p", "t", "e", "r", " ", "n", "o", "t", "e", ":">>,
     <<"c", "h", "a", "p", "t", "e", "r", " ", "n", "o", "t", "e", " ", "b", "y">>,
     <<"t", "h", "a", "n", "k", "s", " ", "f", "o", "r", " ", "p", "l", "a", "y", "i", "n", "g">>,
     <<"a", "s", " ", "a", "l", "w", "a", "y", "s">>}

_is_note_or_message(text, p) ==
    \/ \E i \in 1..Len(p.strong) :
          \E nt \in StrongNoteTypes : Contains(StrLower(Strip(p.strong[i])), nt)
    \/ \E pat \in TextNotePatterns : Contains(StrLower(text), pat)

\* the four branches of the paragraph loop of _process_content
IsStartNote(text) == StartsWith(text, s_TL) \/ StartsWith(text, s_TN)

IsFootnoteDef(text) ==
    /\ Len(text) >= 2 /\ text[1] \in Digits19 /\ text[2] = "."
    /\ Contains(text, <<":">>)

\* IsEndNote by the four literal phrases alone
IsEndNoteLiteral(text, p) ==
    \/ Contains(text, s_TN) \/ Contains(text, s_ChapterNote)
    \/ Contains(text, s_ThanksForPlaying) \/ Contains(text, s_AsAlways)

IsEndNote(text, p) ==
    \/ Contains(text, s_TN) \/ Contains(text, s_ChapterNote)
    \/ Contains(text, s_ThanksForPlaying) \/ Contains(text, s_AsAlways)
    \/ _is_note_or_message(text, p)

EmptyContent ==
    [paragraphs |-> <<>>, after_separator |-> <<>>, footnotes |-> <<>>,
     debug_notes |-> <<>>, found_separator |-> FALSE]

ProcessParagraph(acc, p, cfg) ==
    LET text == Strip(p.text) IN
    IF text = <<>> THEN acc
    ELSE IF IsStartNote(text) THEN
        [acc EXCEPT !.after_separator =
                        IF cfg.INCLUDE_CHAPTER_NOTES THEN Append(@, p) ELSE @,
                    !.debug_notes = Append(@, p)]
    ELSE IF IsFootnoteDef(text) THEN
        [acc EXCEPT !.footnotes =
                        IF cfg.INCLUDE_FOOTNOTES THEN DictSet(@, <<text[1]>>, text) ELSE @,
                    !.debug_notes = Append(@, p)]
    ELSE IF IsEndNote(text, p) THEN
        [acc EXCEPT !.found_separator = TRUE,
                    !.after_separator =
                        IF cfg.INCLUDE_CHAPTER_NOTES THEN Append(@, p) ELSE @,
                    !.debug_notes = Append(@, p)]
    ELSE IF ~_is_chapter_number(text) THEN
        [acc EXCEPT !.paragraphs = Append(@, p)]
    ELSE acc

RECURSIVE ProcessLoop(_, _, _)
ProcessLoop(acc, paras, cfg) ==
    IF paras = <<>> THEN acc
    ELSE ProcessLoop(ProcessParagraph(acc, Head(paras), cfg), Tail(paras), cfg)

\* _process_content starting from the narrative list of an earlier call
ProcessContentCarrying(paras, cfg) ==
    ProcessLoop(IF classified = <<>> THEN EmptyContent
                ELSE [EmptyContent EXCEPT !.paragraphs = classified[1].paragraphs],
                _clean_html_content(paras), cfg)

_process_content(paras, cfg) ==
    ProcessLoop(EmptyContent, _clean_html_content(paras), cfg)

----------------------------------------------------------------------------
(* The classifier of the simple variant: the || separators *)

EmptySimple ==
    [paragraphs |-> <<>>, after_separator |-> <<>>, footnotes |-> <<>>,
     found_first_separator |-> FALSE, in_main_content |-> TRUE]

RECURSIVE AddFootnoteRefs(_, _, _)
AddFootnoteRefs(footnotes, sups, text) ==
    IF sups = <<>> THEN footnotes
    ELSE LET ref_num == Strip(Head(sups).ref)
         IN  AddFootnoteRefs(IF ref_num \notin DictKeys(footnotes)
                             THEN Append(footnotes, <<ref_num, text>>)
                             ELSE footnotes,
                             Tail(sups), text)

SimpleParagraph(acc, p, cfg) ==
    LET text == Strip(p.text) IN
    IF text = <<>> THEN acc
    ELSE IF text = s_sep THEN
        IF ~acc.found_first_separator
        THEN [acc EXCEPT !.found_first_separator = TRUE]
        ELSE [acc EXCEPT !.in_main_content = FALSE]
    ELSE IF acc.in_main_content THEN
        [acc EXCEPT !.paragraphs = Append(@, p)]
    ELSE IF Contains(text, <<RetMark>>) /\ cfg.INCLUDE_FOOTNOTES THEN
        [acc EXCEPT !.footnotes = AddFootnoteRefs(@, p.sups, text)]
    ELSE IF cfg.INCLUDE_CHAPTER_NOTES THEN
        [acc EXCEPT !.after_separator = Append(@, text)]
    ELSE acc

RECURSIVE SimpleLoop(_, _, _)
SimpleLoop(acc, paras, cfg) ==
    IF paras = <<>> THEN acc
    ELSE SimpleLoop(SimpleParagraph(acc, Head(paras), cfg), Tail(paras), cfg)

ProcessSimple(paras, cfg) == SimpleLoop(EmptySimple, CleanSimple(paras), cfg)

----------------------------------------------------------------------------
(* Formatting the narrative paragraphs *)

\* re.sub(r'<sup>.*?</sup>', '', p) removes a marker written exactly <sup>,
\* with no attribute and no line break inside
SupIsPlain(sup) == ~sup.attrs /\ ~Contains(sup.ref, <<"\n">>)

LinkSup(sup, footnotes) ==
    LET ref_num == Strip(sup.ref)
    IN  IF ref_num \in DictKeys(footnotes)
        THEN [sup EXCEPT !.link = ref_num] ELSE sup

FormatParagraph(p, footnotes, cfg) ==
    IF cfg.INCLUDE_FOOTNOTES
    THEN [p EXCEPT !.sups = [i \in 1..Len(p.sups) |-> LinkSup(p.sups[i], footnotes)]]
    ELSE [p EXCEPT !.sups = SelectSeq(p.sups, LAMBDA sup : ~SupIsPlain(sup))]

_format_chapter_content(paragraphs, footnotes, cfg) ==
    [i \in 1..Len(paragraphs) |-> FormatParagraph(paragraphs[i], footnotes, cfg)]

----------------------------------------------------------------------------
(* The chapter document of the e-book.  An anchor is the text after # in   *)
(* an href, or the value of an id.                                         *)

s_footnote_dash == <<"f", "o", "o", "t", "n", "o", "t", "e", "-">>
s_ref_dash == <<"r", "e", "f", "-">>

\* <p id="footnote-{num}" class="footnote"><sup>{num}</sup> {text}
\* <a href="#ref-{num}">RET</a></p> for each entry of the table, in order
_format_footnotes(footnotes) ==
    [i \in 1..Len(footnotes) |->
        [id |-> s_footnote_dash \o footnotes[i][1],
         num |-> footnotes[i][1],
         text |-> footnotes[i][2],
         href |-> s_ref_dash \o footnotes[i][1]]]

\* the document: heading, formatted content, then the footnotes and the
\* notes sections when their flag is set and there are some
add_chapter(chapter_data, cfg) ==
    [title |-> chapter_data.title,
     content |-> chapter_data.content,
     footnotes |-> IF cfg.INCLUDE_FOOTNOTES /\ chapter_data.footnotes # <<>>
                   THEN _format_footnotes(chapter_data.footnotes) ELSE <<>>,
     notes |-> IF cfg.INCLUDE_CHAPTER_NOTES /\ chapter_data.notes # <<>>
               THEN chapter_data.notes ELSE <<>>]

s_chapter_dash == <<"c", "h", "a", "p", "t", "e", "r", "-">>

\* the longest run of digits at the head of s
RECURSIVE DigitRun(_)
DigitRun(s) ==
    IF s # <<>> /\ Head(s) \in Digits THEN <<Head(s)>> \o DigitRun(Tail(s))
    ELSE <<>>

\* re.search(r'chapter-(\d+)', url).group(1): the digits of the leftmost
\* chapter-<digits> of the URL, or <<>> when there is no match
RECURSIVE UrlMatch(_)
UrlMatch(url) ==
    IF url = <<>> THEN <<>>
    ELSE IF /\ StartsWith(url, s_chapter_dash)
            /\ DigitRun(SubSeq(url, Len(s_chapter_dash) + 1, Len(url))) # <<>>
         THEN DigitRun(SubSeq(url, Len(s_chapter_dash) + 1, Len(url)))
         ELSE UrlMatch(Tail(url))

\* _process_chapter_title ignoring the simplified-naming flag
TitleFromPage(title_elem, url, cfg) ==
    IF ~title_elem.present THEN <<>> ELSE Strip(title_elem.text)

\* _process_chapter_title; <<>> stands for None and for the empty string,
\* which `if not chapter_title` treats alike
_process_chapter_title(title_elem, url, cfg) ==
    IF ~title_elem.present THEN <<>>
    ELSE IF cfg.SIMPLE_CHAPTER_NAMES /\ UrlMatch(url) # <<>>
         THEN s_Chapter_ \o UrlMatch(url)
    ELSE Strip(title_elem.text)

\* f"{base_url}{novel_id}/chapter-{chapter_num}", on a short base and id
ChapterUrl(n) == <<"u", "/", "i", "/">> \o s_chapter_dash \o NumStr(n)

NoTitle == [url |-> <<>>, title_elem |-> [present |-> FALSE, text |-> <<>>],
            chapter_title |-> <<>>, done |-> FALSE]

----------------------------------------------------------------------------
(* Pages the site may answer with *)

Para(text, strong, sups, within) ==
    [text |-> text, strong |-> strong, sups |-> sups, within |-> within]

Sup(ref) == [ref |-> ref, attrs |-> FALSE, link |-> <<>>]

p_story == Para(<<"H", "i">>, <<>>, <<>>, "none")
p_marked == Para(<<"H", "o", "1">>, <<>>, <<Sup(<<"1">>)>>, "none")
p_number == Para(<<"7">>, <<>>, <<>>, "none")
p_blank == Para(<<" ">>, <<>>, <<>>, "none")
p_start_note == Para(<<"T", "/", "N", ":", " ", "x">>, <<>>, <<>>, "none")
p_footnote == Para(<<"1", ".", " ", "a", ":", " ", "b">>, <<>>, <<>>, "none")
p_strong_note == Para(<<"N", "o", "t", "e", " ", "o", "k">>, <<<<"N", "o", "t", "e">>>>, <<>>, "none")
p_sep == Para(<<"|", "|">>, <<>>, <<>>, "none")
p_return == Para(<<"1", " ", "y", RetMark>>, <<>>, <<Sup(<<"1">>)>>, "none")
p_ad == Para(<<"A", "d">>, <<>>, <<>>, "vm-placement")
p_sse == Para(<<"A", "d">>, <<>>, <<>>, "sse")

\* a narrative paragraph whose marker is written <sup class="fn">1</sup>
p_attr == Para(<<"H", "u", "1">>, <<>>,
               <<[ref |-> <<"1">>, attrs |-> TRUE, link |-> <<>>]>>, "none")
p_number_dot == Para(<<"7", ".">>, <<>>, <<>>, "none")
p_chapter_n == Para(<<" ", "C", "h", "a", "p", "t", "e", "r", " ", "7">>, <<>>, <<>>, "none")
p_lower_note == Para(<<"t", "n", ":", " ", "x">>, <<>>, <<>>, "none")

Page(status, body_empty, title_present, title_text, container, paras) ==
    [status |-> status, body_empty |-> body_empty,
     title_elem |-> [present |-> title_present, text |-> title_text],
     container |-> container, paras |-> paras]

\* the title text the site shows for chapter n
s_title(n) == <<" ", "N", "o", " ">> \o NumStr(n) \o <<" ">>

page_network_error == Page("network_error", TRUE, FALSE, <<>>, FALSE, <<>>)
page_http_error(n) == Page("http_error", FALSE, TRUE, s_title(n), TRUE, <<p_story>>)
page_empty_body == Page("ok", TRUE, FALSE, <<>>, FALSE, <<>>)
page_no_title == Page("ok", FALSE, FALSE, <<>>, TRUE, <<p_story>>)
page_blank_title == Page("ok", FALSE, TRUE, <<" ">>, TRUE, <<p_story>>)
page_no_container(n) == Page("ok", FALSE, TRUE, s_title(n), FALSE, <<>>)
page_only_ads(n) == Page("ok", FALSE, TRUE, s_title(n), TRUE, <<p_ad, p_blank>>)
page_chapter(n) ==
    Page("ok", FALSE, TRUE, s_title(n), TRUE,
         <<p_start_note, p_sse, p_sep, p_marked, p_number, p_footnote,
           p_strong_note, p_sep, p_return, p_story>>)

\* what the site may answer when chapter n is requested
Pages(n) == {page_network_error, page_http_error(n), page_empty_body,
             page_no_title, page_blank_title, page_no_container(n),
             page_only_ads(n), page_chapter(n)}

----------------------------------------------------------------------------
(* RateLimiter.  A recorded request time is kept as its age: the ticks     *)
(* elapsed since it, which is all wait() reads of it; an age is counted up *)
(* to min_interval, beyond which wait() no longer tells ages apart.        *)

RateLimiterInit(v) ==
    IF v = "full"
    THEN [last_request_times |-> <<>>, failed_attempts |-> 0]
    ELSE [last_request_times |-> <<>>]

\* the clock moves on by d ticks
Elapse(v, rl, d) ==
    [rl EXCEPT !.last_request_times =
        [i \in 1..Len(@) |-> Min(@[i] + d, min_interval(v))]]

\* deque(maxlen=10).append
DequeAppend(q, x) ==
    IF Len(q) < DequeMaxLen THEN Append(q, x) ELSE Append(Tail(q), x)

\* IntervalWait with the interval taken one tick short
IntervalWaitShort(v, rl) ==
    IF rl.last_request_times # <<>>
    THEN Max(0, min_interval(v) - 1 - rl.last_request_times[Len(rl.last_request_times)])
    ELSE 0

\* max(0, min_interval - elapsed), or 0 before the first request
IntervalWait(v, rl) ==
    IF rl.last_request_times # <<>>
    THEN Max(0, min_interval(v) - rl.last_request_times[Len(rl.last_request_times)])
    ELSE 0

\* Penalty without its ceiling
PenaltyUncapped(failed_attempts) == Seconds(2 ^ failed_attempts - 1)

\* min(300, (2 ** failed_attempts) - 1) seconds
Penalty(failed_attempts) ==
    Seconds(Min(PenaltyCapSeconds, 2 ^ failed_attempts - 1))

PenaltyWait(v, rl) ==
    IF v = "full" /\ rl.failed_attempts > 0 THEN Penalty(rl.failed_attempts) ELSE 0

wait_time(v, rl) == IntervalWait(v, rl) + PenaltyWait(v, rl)

\* the limiter after wait(): it slept wait_time, then appended the time at
\* which wait() was entered, which is wait_time old by now
AfterWait(v, rl) ==
    LET w == wait_time(v, rl)
        aged == Elapse(v, rl, w)
    IN  [aged EXCEPT !.last_request_times = DequeAppend(@, Min(w, min_interval(v)))]

\* the counter wait() reads; the simple variant's limiter keeps none
FailedAttempts(v, rl) == IF v = "full" THEN rl.failed_attempts ELSE 0

record_failure(rl) == [rl EXCEPT !.failed_attempts = @ + 1]

\* record_success leaving the counter alone
record_success_keep(rl) == rl

record_success(rl) == [rl EXCEPT !.failed_attempts = 0]

----------------------------------------------------------------------------
(* get_chapter_content: one attempt *)

None == [none |-> TRUE, chapter_title |-> <<>>, content |-> <<>>,
         after_separator |-> <<>>, footnotes |-> <<>>]

Returned(title, content, after_separator, footnotes) ==
    [none |-> FALSE, chapter_title |-> title, content |-> content,
     after_separator |-> after_separator, footnotes |-> footnotes]

Classify(v, paras, cfg) ==
    IF v = "full" THEN _process_content(paras, cfg) ELSE ProcessSimple(paras, cfg)

\* AttemptKind without the check for narrative paragraphs
AttemptKindAcceptEmpty(v, page, n, cfg) ==
    LET title == _process_chapter_title(page.title_elem, ChapterUrl(n), cfg)
    IN  IF page.status = "network_error" THEN "network_error"
        ELSE IF page.status # "ok" THEN "http_error"
        ELSE IF page.body_empty THEN "empty_body"
        ELSE IF title = <<>> THEN "no_title"
        ELSE IF ~page.container THEN "no_container"
        ELSE "success"

\* what one GET of `page` for chapter n comes to: its kind and, on success,
\* the tuple returned
AttemptKind(v, page, n, cfg) ==
    LET title == _process_chapter_title(page.title_elem, ChapterUrl(n), cfg)
        c == Classify(v, page.paras, cfg)
    IN  IF page.status = "network_error" THEN "network_error"
        ELSE IF page.status # "ok" THEN "http_error"
        ELSE IF page.body_empty THEN "empty_body"
        ELSE IF title = <<>> THEN "no_title"
        ELSE IF ~page.container THEN "no_container"
        ELSE IF Len(c.paragraphs) = 0 THEN "no_paragraphs"
        ELSE "success"

AttemptResult(v, page, n, cfg) ==
    LET c == Classify(v, page.paras, cfg)
    IN  Returned(_process_chapter_title(page.title_elem, ChapterUrl(n), cfg),
                 _format_chapter_content(c.paragraphs, c.footnotes, cfg),
                 c.after_separator, c.footnotes)

TransientKinds == {"network_error", "http_error", "empty_body"}
StructuralKinds == {"no_title", "no_container", "no_paragraphs"}

\* the kinds that raise into the except clause of the retry loop; the simple
\* variant returns the structural ones at once
Raises(v, kind) ==
    IF v = "full" THEN kind \in TransientKinds \cup StructuralKinds
    ELSE kind \in TransientKinds

\* the attempts of one chapter in short: whether all of them failed with a
\* transient error, and whether one of them found no narrative paragraph
NoAttempts == [only_transient |-> TRUE, no_paragraphs |-> FALSE]

\* AttemptsRemain giving up one attempt early
AttemptsRemainEarly(a) == a < MAX_RETRIES - 2

\* attempt < MAX_RETRIES - 1
AttemptsRemain(a) == a < MAX_RETRIES - 1

\* RetryDelay with the same delay before every retry
RetryDelayFlat(a) == RetryBaseSeconds

\* time.sleep((attempt + 1) * 5), in seconds
RetryDelay(a) == (a + 1) * RetryBaseSeconds

----------------------------------------------------------------------------
(* The driver: main() *)

\* no wait() has returned yet; since: ticks since the last wait() returned,
\* gap: ticks between the returns of the last two, both counted up to
\* min_interval, -1 while there is none
NoRelease == [since |-> -1, gap |-> -1]

\* wait() returns after sleeping w ticks
Released(v, log, w) ==
    [since |-> 0,
     gap |-> IF log.since = -1 THEN -1 ELSE Min(log.since + w, min_interval(v))]

\* d ticks go by
ReleaseAged(v, log, d) ==
    [log EXCEPT !.since = IF @ = -1 THEN -1 ELSE Min(@ + d, min_interval(v))]

NoWait == [ctx |-> "none", first |-> FALSE, elapsed |-> 0, wait_time |-> 0,
           penalty |-> 0, failed |-> 0]

\* Truthy taking every returned tuple, the four None included
TruthyAny(r) == TRUE

\* `chapter_title and content`
Truthy(r) == ~r.none /\ r.chapter_title # <<>> /\ r.content # <<>>

ChapterRecord(r) ==
    [title |-> r.chapter_title, content |-> r.content,
     notes |-> r.after_separator, footnotes |-> r.footnotes]

ProgressInit(total) == [total |-> total, current |-> 0, success |-> 0, failures |-> 0]

\* ProgressUpdate counting every chapter as a success
ProgressUpdateAll(v, pr, ok) ==
    [pr EXCEPT !.current = @ + 1, !.success = @ + 1]

\* ProgressTracker.update(success); the simple variant counts total_requests
\* (current) and successful_requests (success) only
ProgressUpdate(v, pr, ok) ==
    [pr EXCEPT !.current = @ + 1,
               !.success = IF ok THEN @ + 1 ELSE @,
               !.failures = IF ~ok /\ v = "full" THEN @ + 1 ELSE @]

\* HasChapters taking an empty list for chapters
HasChaptersAlways(cd) == TRUE

\* `if chapters_data:`
HasChapters(cd) == Len(cd) > 0

\* the command line after get_user_input has read it
NoArgs == [from_flags |-> FALSE, start |-> 0, end |-> 0, url_valid |-> TRUE,
           empty_required |-> FALSE]

\* `inputs` before get_user_input has returned
NoInputs == [start_chapter |-> 0, end_chapter |-> 0, url_valid |-> TRUE]

Init ==
    /\ variant \in {"full", "simple"}
    /\ Config \in [INCLUDE_FOOTNOTES : BOOLEAN, INCLUDE_CHAPTER_NOTES : BOOLEAN,
                   SIMPLE_CHAPTER_NAMES : BOOLEAN]
    \* from_flags: --start and --end are given on the command line;
    \* empty_required: a required text (base URL, novel ID, title) is empty
    /\ args \in [from_flags : BOOLEAN, start : 1..MaxChapters,
                 end : 1..MaxChapters, url_valid : BOOLEAN,
                 empty_required : BOOLEAN]
    /\ args.start <= args.end + 1
    \* the simple variant reads no flag for these and builds the URL on a
    \* fixed base
    /\ variant = "simple" => ~args.from_flags /\ args.url_valid
    /\ inputs = NoInputs
    /\ pc = "input"
    /\ chapter_num = 0
    /\ attempt = 0
    /\ rate_limiter = RateLimiterInit(variant)
    /\ result = None
    /\ chapters_data = <<>>
    /\ progress = ProgressInit(0)
    /\ epub_file = "none"
    /\ book = <<>>
    /\ message = "none"
    /\ gets = 0
    /\ kinds = NoAttempts
    /\ sleeps = <<>>
    /\ fail_log = 0
    /\ wait_log = NoWait
    /\ release_log = NoRelease
    /\ outcomes = <<>>
    /\ fragment = <<>>
    /\ classified = <<>>
    /\ titled = NoTitle

\* whether start > end is looked at: the full variant takes --start and --end
\* as given and checks only the numbers typed at the prompts
RangeChecked(v, a) == v = "simple" \/ ~a.from_flags

\* get_user_input raises ValidationError (ValueError in the simple variant)
InputRejected(v, a) ==
    \/ a.empty_required
    \/ RangeChecked(v, a) /\ a.start > a.end

\* get_user_input and the set-up of main() before the chapter loop; an
\* exception raised here reaches main's `except Exception`
GetUserInput ==
    /\ pc = "input"
    /\ IF InputRejected(variant, args)
       THEN /\ pc' = "aborted"
            /\ message' = "error"
            /\ UNCHANGED <<args, inputs, chapter_num, progress>>
       ELSE /\ inputs' = [start_chapter |-> args.start, end_chapter |-> args.end,
                          url_valid |-> args.url_valid]
            /\ args' = NoArgs
            /\ progress' = ProgressInit(args.end - args.start + 1)
            /\ chapter_num' = args.start
            /\ pc' = "loop"
            /\ UNCHANGED message
    /\ UNCHANGED <<variant, Config, book, release_log, fragment, classified,
                   titled, attempt, rate_limiter, result, chapters_data,
                   epub_file, gets, kinds, sleeps, fail_log, wait_log,
                   outcomes>>

\* the for loop takes the next chapter and calls get_chapter_content(url)
NextChapter ==
    /\ pc = "loop"
    /\ chapter_num <= inputs.end_chapter
    /\ IF variant = "full" /\ ~inputs.url_valid
       THEN \* ValidationError("Invalid chapter URL") reaches main's handler
            /\ pc' = "aborted"
            /\ message' = "error"
       ELSE /\ pc' = "wait"
            /\ UNCHANGED message
    /\ UNCHANGED <<variant, Config, book, release_log, args, inputs,
                   fragment, classified, titled, chapter_num, attempt,
                   rate_limiter, result, chapters_data, progress, epub_file,
                   gets, kinds, sleeps, fail_log, wait_log, outcomes>>

\* self.rate_limiter.wait()
Wait ==
    /\ pc = "wait"
    /\ rate_limiter' = AfterWait(variant, rate_limiter)
    /\ wait_log' =
          [ctx |-> IF attempt > 0 THEN "retry"
                   ELSE IF outcomes = <<>> THEN "start"
                   ELSE IF outcomes[Len(outcomes)].ok THEN "after_success"
                   ELSE IF outcomes[Len(outcomes)].exhausted
                        THEN "after_exhausted"
                   ELSE "after_failure",
           first |-> rate_limiter.last_request_times = <<>>,
           elapsed |-> IF rate_limiter.last_request_times = <<>> THEN 0
                       ELSE rate_limiter.last_request_times[
                                Len(rate_limiter.last_request_times)],
           wait_time |-> wait_time(variant, rate_limiter),
           penalty |-> PenaltyWait(variant, rate_limiter),
           failed |-> FailedAttempts(variant, rate_limiter)]
    /\ release_log' = Released(variant, release_log,
                               wait_time(variant, rate_limiter))
    /\ pc' = "get"
    /\ UNCHANGED <<variant, Config, book, args, inputs, fragment, classified,
                   titled, chapter_num, attempt, result, chapters_data,
                   progress, epub_file, message, gets, kinds, sleeps,
                   fail_log, outcomes>>

\* the GET of one attempt, the parsing and the classification, up to the
\* return or to the except clause
Get ==
    /\ pc = "get"
    /\ \E page \in Pages(chapter_num), d \in FetchTicks :
        LET kind == AttemptKind(variant, page, chapter_num, Config)
            rl == Elapse(variant, rate_limiter, d)
        IN  /\ release_log' = ReleaseAged(variant, release_log, d)
            /\ gets' = gets + 1
            /\ kinds' = [only_transient |-> kinds.only_transient /\ kind \in TransientKinds,
                          no_paragraphs |-> kinds.no_paragraphs \/ kind = "no_paragraphs"]
            /\ fail_log' = IF kind = "success" THEN 0 ELSE fail_log + 1
            /\ IF kind = "success" THEN
                    /\ rate_limiter' = IF variant = "full" THEN record_success(rl) ELSE rl
                    /\ result' = AttemptResult(variant, page, chapter_num, Config)
                    /\ pc' = "collect"
               ELSE IF Raises(variant, kind) THEN
                    /\ rate_limiter' = IF variant = "full" THEN record_failure(rl) ELSE rl
                    /\ IF AttemptsRemain(attempt)
                       THEN pc' = "sleep" /\ UNCHANGED result
                       ELSE pc' = "collect" /\ result' = None
               ELSE \* return None, None, None, None
                    /\ rate_limiter' = rl
                    /\ result' = None
                    /\ pc' = "collect"
    /\ wait_log' = NoWait
    /\ UNCHANGED <<variant, Config, book, args, inputs, fragment, classified,
                   titled, chapter_num, attempt, chapters_data, progress,
                   epub_file, message, sleeps, outcomes>>

\* time.sleep((attempt + 1) * 5), then the next iteration of the retry loop
Sleep ==
    /\ pc = "sleep"
    /\ sleeps' = Append(sleeps, RetryDelay(attempt))
    /\ rate_limiter' = Elapse(variant, rate_limiter, Seconds(RetryDelay(attempt)))
    /\ release_log' = ReleaseAged(variant, release_log,
                                  Seconds(RetryDelay(attempt)))
    /\ attempt' = attempt + 1
    /\ IF attempt + 1 < MAX_RETRIES
       THEN pc' = "wait" /\ UNCHANGED result
       ELSE \* range(MAX_RETRIES) is used up: the return after the loop
            pc' = "collect" /\ result' = None
    /\ UNCHANGED <<variant, Config, book, args, inputs, fragment, classified,
                   titled, chapter_num, chapters_data, progress, epub_file,
                   message, gets, kinds, fail_log, wait_log, outcomes>>

\* a driver that asks again for a chapter whose call returned nothing
CollectRetrying ==
    /\ pc = "collect"
    /\ chapters_data' = IF Truthy(result)
                        THEN Append(chapters_data, ChapterRecord(result))
                        ELSE chapters_data
    /\ progress' = ProgressUpdate(variant, progress, Truthy(result))
    /\ outcomes' = Append(outcomes, [num |-> chapter_num, ok |-> ~result.none,
                                     exhausted |-> result.none /\ gets = MAX_RETRIES])
    /\ chapter_num' = IF Truthy(result) THEN chapter_num + 1 ELSE chapter_num
    /\ pc' = "loop"
    /\ result' = None
    /\ attempt' = 0
    /\ gets' = 0
    /\ kinds' = NoAttempts
    /\ sleeps' = <<>>
    /\ UNCHANGED <<variant, Config, book, release_log, args, inputs,
                   fragment, classified, titled, rate_limiter, epub_file,
                   message, fail_log, wait_log>>

\* the driver takes the returned tuple: append and count, or warn and skip
Collect ==
    /\ pc = "collect"
    /\ chapters_data' = IF Truthy(result)
                        THEN Append(chapters_data, ChapterRecord(result))
                        ELSE chapters_data
    /\ progress' = ProgressUpdate(variant, progress, Truthy(result))
    /\ outcomes' = Append(outcomes, [num |-> chapter_num, ok |-> ~result.none,
                                     exhausted |-> result.none /\ gets = MAX_RETRIES])
    /\ chapter_num' = chapter_num + 1
    /\ pc' = "loop"
    /\ result' = None
    /\ attempt' = 0
    /\ gets' = 0
    /\ kinds' = NoAttempts
    /\ sleeps' = <<>>
    /\ UNCHANGED <<variant, Config, book, release_log, args, inputs,
                   fragment, classified, titled, rate_limiter, epub_file,
                   message, fail_log, wait_log>>

\* after the loop: assemble and write the e-book, or report that nothing
\* was scraped; epub.write_epub may raise, which is caught and reported
Finish ==
    /\ pc = "loop"
    /\ chapter_num > inputs.end_chapter
    /\ IF HasChapters(chapters_data)
       THEN /\ book' = [i \in 1..Len(chapters_data) |->
                            add_chapter(chapters_data[i], Config)]
            /\ \E written \in BOOLEAN :
                /\ epub_file' = IF written THEN "written" ELSE "write_error"
                /\ message' = IF written THEN "created" ELSE "epub_error"
       ELSE /\ epub_file' = epub_file
            /\ message' = "no_chapters"
            /\ UNCHANGED book
    /\ pc' = "done"
    /\ UNCHANGED <<variant, Config, release_log, args, inputs, fragment,
                   classified, titled, chapter_num, attempt, rate_limiter,
                   result, chapters_data, progress, gets, kinds, sleeps,
                   fail_log, wait_log, outcomes>>

\* Interrupt caught by the fetcher's except clause as one more failed chapter
InterruptSwallowed ==
    /\ pc \in {"wait", "get", "sleep"}
    /\ pc' = "collect"
    /\ result' = None
    /\ message' = IF variant = "full" THEN "cancelled" ELSE "traceback"
    /\ wait_log' = NoWait
    /\ UNCHANGED <<variant, Config, book, release_log, args, inputs,
                   fragment, classified, titled, chapter_num, attempt,
                   rate_limiter, chapters_data, progress, epub_file, gets,
                   kinds, sleeps, fail_log, outcomes>>

\* KeyboardInterrupt while the fetcher waits, fetches or sleeps: the full
\* variant reports the cancellation, the simple one dies of the exception
Interrupt ==
    /\ pc \in {"wait", "get", "sleep"}
    /\ pc' = "aborted"
    /\ message' = IF variant = "full" THEN "cancelled" ELSE "traceback"
    \* the call of get_chapter_content is unwound
    /\ attempt' = 0
    /\ gets' = 0
    /\ kinds' = NoAttempts
    /\ sleeps' = <<>>
    /\ wait_log' = NoWait
    /\ UNCHANGED <<variant, Config, book, release_log, args, inputs,
                   fragment, classified, titled, chapter_num, rate_limiter,
                   result, chapters_data, progress, epub_file, fail_log,
                   outcomes>>

Next ==
    \/ GetUserInput
    \/ NextChapter
    \/ Wait
    \/ Get
    \/ Sleep
    \/ Collect
    \/ Finish
    \/ Interrupt

Spec == Init /\ [][Next]_vars

\* the run with its steps taken: input() returns, the GET has a timeout,
\* and wait() and time.sleep() sleep for a finite time
SpecFair == Spec /\ WF_vars(Next)

----------------------------------------------------------------------------
(* A RateLimiter driven on its own: wait(), record_failure() and           *)
(* record_success() called in any order, with time passing in between      *)

LimiterInit ==
    /\ variant \in {"full", "simple"}
    /\ Config = [INCLUDE_FOOTNOTES |-> FALSE, INCLUDE_CHAPTER_NOTES |-> FALSE,
                 SIMPLE_CHAPTER_NAMES |-> FALSE]
    /\ args = NoArgs
    /\ inputs = [start_chapter |-> 1, end_chapter |-> 1, url_valid |-> TRUE]
    /\ pc = "limiter"
    /\ chapter_num = 1
    /\ attempt = 0
    /\ rate_limiter = RateLimiterInit(variant)
    /\ result = None
    /\ chapters_data = <<>>
    /\ progress = ProgressInit(1)
    /\ epub_file = "none"
    /\ book = <<>>
    /\ message = "none"
    /\ gets = 0
    /\ kinds = NoAttempts
    /\ sleeps = <<>>
    /\ fail_log = 0
    /\ wait_log = NoWait
    /\ release_log = NoRelease
    /\ outcomes = <<>>
    /\ fragment = <<>>
    /\ classified = <<>>
    /\ titled = NoTitle

LimiterFrame ==
    UNCHANGED <<variant, Config, book, args, inputs, fragment, classified,
                titled, pc, chapter_num, attempt, result, chapters_data,
                progress, epub_file, message, gets, kinds, sleeps, outcomes>>

LimiterWait ==
    /\ pc = "limiter"
    /\ rate_limiter' = AfterWait(variant, rate_limiter)
    /\ wait_log' =
          [ctx |-> "call",
           first |-> rate_limiter.last_request_times = <<>>,
           elapsed |-> IF rate_limiter.last_request_times = <<>> THEN 0
                       ELSE rate_limiter.last_request_times[
                                Len(rate_limiter.last_request_times)],
           wait_time |-> wait_time(variant, rate_limiter),
           penalty |-> PenaltyWait(variant, rate_limiter),
           failed |-> FailedAttempts(variant, rate_limiter)]
    /\ release_log' = Released(variant, release_log,
                               wait_time(variant, rate_limiter))
    /\ UNCHANGED fail_log
    /\ LimiterFrame

LimiterRecordFailure ==
    /\ pc = "limiter"
    /\ variant = "full"
    /\ rate_limiter.failed_attempts < MaxFailures
    /\ rate_limiter' = record_failure(rate_limiter)
    /\ fail_log' = fail_log + 1
    /\ wait_log' = NoWait
    /\ UNCHANGED release_log
    /\ LimiterFrame

LimiterRecordSuccess ==
    /\ pc = "limiter"
    /\ variant = "full"
    /\ rate_limiter' = record_success(rate_limiter)
    /\ fail_log' = 0
    /\ wait_log' = NoWait
    /\ UNCHANGED release_log
    /\ LimiterFrame

\* half an interval or a whole one goes by
LimiterElapse ==
    /\ pc = "limiter"
    /\ \E d \in {min_interval(variant) \div 2, min_interval(variant)} :
          /\ rate_limiter' = Elapse(variant, rate_limiter, d)
          /\ release_log' = ReleaseAged(variant, release_log, d)
    /\ wait_log' = NoWait
    /\ UNCHANGED fail_log
    /\ LimiterFrame

LimiterNext ==
    \/ LimiterWait
    \/ LimiterRecordFailure
    \/ LimiterRecordSuccess
    \/ LimiterElapse

SpecLimiter == LimiterInit /\ [][LimiterNext]_vars

----------------------------------------------------------------------------
(* The classifier and the formatter applied to one content container on    *)
(* their own: _process_content and _format_chapter_content of the full     *)
(* variant, the paragraph loop of get_chapter_content of the simple one    *)

MaxParas == 2           \* paragraphs of a container other than separators
MaxSeparators == 3      \* || paragraphs of a container of the simple variant

\* the paragraphs a container is made of
ParagraphsFull == {p_story, p_marked, p_attr, p_number, p_number_dot,
                   p_chapter_n, p_start_note, p_footnote, p_strong_note,
                   p_lower_note, p_sep, p_blank, p_ad, p_sse}
ParagraphsSimple == {p_marked, p_attr, p_number, p_return, p_start_note, p_ad}

\* the containers of at most n paragraphs of `alphabet` and at most s separators
RECURSIVE Fragments(_, _, _)
Fragments(alphabet, n, s) ==
    {<<>>}
    \cup (IF n = 0 THEN {}
          ELSE {<<p>> \o f : p \in alphabet, f \in Fragments(alphabet, n - 1, s)})
    \cup (IF s = 0 THEN {}
          ELSE {<<p_sep>> \o f : f \in Fragments(alphabet, n, s - 1)})

\* the container after a call: the full variant re-parses str(content_div)
\* and cleans the copy, the simple variant decomposes the noise in place
FragmentAfter(v, paras) == IF v = "full" THEN paras ELSE CleanSimple(paras)

\* what one call hands back: the three collections and the formatted content
ClassifierOutput(v, paras, cfg) ==
    LET c == Classify(v, paras, cfg)
    IN  [paragraphs |-> c.paragraphs,
         after_separator |-> c.after_separator,
         footnotes |-> c.footnotes,
         content |-> _format_chapter_content(c.paragraphs, c.footnotes, cfg)]

ClassifierInit ==
    /\ variant \in {"full", "simple"}
    /\ fragment \in IF variant = "full"
                    THEN Fragments(ParagraphsFull, MaxParas, 0)
                    ELSE Fragments(ParagraphsSimple, MaxParas, MaxSeparators)
    /\ Config \in [INCLUDE_FOOTNOTES : BOOLEAN, INCLUDE_CHAPTER_NOTES : BOOLEAN,
                   SIMPLE_CHAPTER_NAMES : {FALSE}]
    /\ classified = <<>>
    /\ titled = NoTitle
    /\ args = NoArgs
    /\ inputs = [start_chapter |-> 1, end_chapter |-> 1, url_valid |-> TRUE]
    /\ pc = "classify"
    /\ chapter_num = 1
    /\ attempt = 0
    /\ rate_limiter = RateLimiterInit(variant)
    /\ result = None
    /\ chapters_data = <<>>
    /\ progress = ProgressInit(1)
    /\ epub_file = "none"
    /\ book = <<>>
    /\ message = "none"
    /\ gets = 0
    /\ kinds = NoAttempts
    /\ sleeps = <<>>
    /\ fail_log = 0
    /\ wait_log = NoWait
    /\ release_log = NoRelease
    /\ outcomes = <<>>

ClassifierFrame ==
    UNCHANGED <<variant, Config, book, release_log, args, inputs, titled,
                chapter_num, attempt, rate_limiter, result, chapters_data,
                progress, epub_file, message, gets, kinds, sleeps, fail_log,
                wait_log, outcomes>>

\* the first call on the container
ClassifyFragment ==
    /\ pc = "classify"
    /\ classified' = <<ClassifierOutput(variant, fragment, Config)>>
    /\ fragment' = FragmentAfter(variant, fragment)
    /\ pc' = "classified"
    /\ ClassifierFrame

\* _process_content called once more on the same content_div
ClassifyAgain ==
    /\ pc = "classified"
    /\ variant = "full"
    /\ classified' = Append(classified, ClassifierOutput(variant, fragment, Config))
    /\ fragment' = FragmentAfter(variant, fragment)
    /\ pc' = "reclassified"
    /\ ClassifierFrame

\* the page's record, when it has narrative, is added to the e-book
RenderChapter ==
    /\ pc = "classified"
    /\ classified[1].paragraphs # <<>>
    /\ book' = <<add_chapter([title |-> <<>>,
                              content |-> classified[1].content,
                              notes |-> classified[1].after_separator,
                              footnotes |-> classified[1].footnotes],
                             Config)>>
    /\ pc' = "rendered"
    /\ UNCHANGED <<variant, Config, release_log, args, inputs, fragment,
                   classified, titled, chapter_num, attempt, rate_limiter,
                   result, chapters_data, progress, epub_file, message, gets,
                   kinds, sleeps, fail_log, wait_log, outcomes>>

ClassifierNext ==
    \/ ClassifyFragment
    \/ ClassifyAgain
    \/ RenderChapter

SpecClassifier == ClassifierInit /\ [][ClassifierNext]_vars

----------------------------------------------------------------------------
(* _process_chapter_title applied on its own to a URL and a title element   *)

\* URLs with one chapter-<digits>, with none (other word, no digit, other
\* letter case) and with two
Urls ==
    {<<"u", "/", "i", "/">> \o s_chapter_dash \o <<"1", "2">>,
     <<"u", "/", "i", "/", "c", "h", "-", "1", "2">>,
     <<"u", "/", "i", "/">> \o s_chapter_dash,
     <<"u", "/", "i", "/", "C", "h", "a", "p", "t", "e", "r", "-", "5">>,
     <<"u", "/">> \o s_chapter_dash \o <<"7", "x", "/">> \o s_chapter_dash \o <<"3">>}

\* what soup.find('span', class_='chapter-title') may give
TitleElems ==
    {[present |-> FALSE, text |-> <<>>],
     [present |-> TRUE, text |-> <<" ">>],
     [present |-> TRUE, text |-> s_title(1)],
     [present |-> TRUE, text |-> <<"C", "h", "a", "p", "t", "e", "r", " ", "9">>]}

TitleInit ==
    /\ variant \in {"full", "simple"}
    /\ Config \in [INCLUDE_FOOTNOTES : BOOLEAN, INCLUDE_CHAPTER_NOTES : BOOLEAN,
                   SIMPLE_CHAPTER_NAMES : BOOLEAN]
    /\ titled \in [url : Urls, title_elem : TitleElems, chapter_title : {<<>>},
                   done : {FALSE}]
    /\ fragment = <<>>
    /\ classified = <<>>
    /\ args = NoArgs
    /\ inputs = [start_chapter |-> 1, end_chapter |-> 1, url_valid |-> TRUE]
    /\ pc = "title"
    /\ chapter_num = 1
    /\ attempt = 0
    /\ rate_limiter = RateLimiterInit(variant)
    /\ result = None
    /\ chapters_data = <<>>
    /\ progress = ProgressInit(1)
    /\ epub_file = "none"
    /\ book = <<>>
    /\ message = "none"
    /\ gets = 0
    /\ kinds = NoAttempts
    /\ sleeps = <<>>
    /\ fail_log = 0
    /\ wait_log = NoWait
    /\ release_log = NoRelease
    /\ outcomes = <<>>

\* chapter_title = self._process_chapter_title(title_elem, url)
ProcessTitle ==
    /\ pc = "title"
    /\ ~titled.done
    /\ titled' = [titled EXCEPT
                    !.chapter_title = _process_chapter_title(titled.title_elem,
                                                             titled.url, Config),
                    !.done = TRUE]
    /\ UNCHANGED <<variant, Config, book, release_log, args, inputs,
                   fragment, classified, pc, chapter_num, attempt,
                   rate_limiter, result, chapters_data, progress, epub_file,
                   message, gets, kinds, sleeps, fail_log, wait_log,
                   outcomes>>

TitleNext == ProcessTitle

SpecTitle == TitleInit /\ [][TitleNext]_vars

----------------------------------------------------------------------------
(* Properties *)

\* C1: when every fetch attempt of a chapter fails with a transient error,
\* get_chapter_content issues exactly MAX_RETRIES (3) GETs, never a 4th, and
\* then returns the Failure outcome (all four results None).
C1_TransientFailuresExhaustRetries ==
    /\ gets <= 3
    /\ (pc = "collect" /\ kinds.only_transient) => (gets = 3 /\ result = None)

C1_Witness == pc = "collect" /\ kinds.only_transient /\ gets = 3 /\ result.none

\* C2: each failure kind (non-2xx, network error, empty body, missing title,
\* missing container, zero narrative paragraphs) is retried while attempts
\* remain: Failure is returned only once all MAX_RETRIES attempts are used.
C2_EveryFailureKindIsRetried ==
    (pc = "collect" /\ result.none) => gets = MAX_RETRIES

\* C3: the k-th failed attempt with attempts remaining is followed by a sleep
\* of k * 5 seconds, so the delays of one chapter increase strictly; the
\* return after the last attempt is not preceded by a sleep.
C3_LinearBackoff ==
    /\ \A k \in 1..Len(sleeps) : sleeps[k] = k * 5
    /\ \A j, k \in 1..Len(sleeps) : j < k => sleeps[j] < sleeps[k]
    /\ pc \in {"wait", "get"} => Len(sleeps) = gets
    /\ pc \in {"sleep", "collect"} => Len(sleeps) = gets - 1

C3_Witness == pc = "collect" /\ result.none /\ gets = 3 /\ sleeps = <<5, 10>>

\* C4: after a chapter ended in Exhausted Failure the first wait() of the
\* next chapter adds a strictly positive exponential penalty (and the next
\* chapter starts again at its first attempt).
C4_PenaltyAfterExhaustedChapter ==
    (pc = "get" /\ wait_log.ctx = "after_exhausted") =>
        (wait_log.penalty > 0 /\ attempt = 0 /\ gets = 0)

\* C5: the failure counter of the full variant's RateLimiter equals the number
\* of failed fetch attempts since the most recent success (or the start), and
\* the wait that follows a successful chapter carries no penalty.
C5_FailureCounterTracksFailures ==
    variant = "full" =>
        /\ rate_limiter.failed_attempts = fail_log
        /\ (pc = "get" /\ wait_log.ctx = "after_success") => wait_log.penalty = 0

C5_Witness ==
    /\ variant = "full" /\ pc = "collect" /\ ~result.none /\ gets = 3
    /\ rate_limiter.failed_attempts = 0

\* C6: wait() of the full variant adds exactly min(300, 2^failed_attempts - 1)
\* seconds when failed_attempts > 0 and nothing when it is 0; the penalty
\* never exceeds 300 seconds.
C6_PenaltyIsCappedExponential ==
    (variant = "full" /\ wait_log.ctx = "call") =>
        /\ wait_log.failed = 0 => wait_log.penalty = 0
        /\ (wait_log.failed > 0 /\ 2 ^ wait_log.failed - 1 <= 300) =>
              wait_log.penalty = (2 ^ wait_log.failed - 1) * 40
        /\ (wait_log.failed > 0 /\ 2 ^ wait_log.failed - 1 > 300) =>
              wait_log.penalty = 300 * 40
        /\ wait_log.penalty <= 300 * 40

C6_Witness ==
    /\ variant = "full" /\ wait_log.ctx = "call"
    /\ wait_log.failed >= 9 /\ wait_log.penalty = 300 * 40

\* C7: when wait() returns, at least 1/rate seconds have passed since the
\* request recorded by the previous wait(); the first wait() of a run does
\* not block.
C7_MinIntervalSinceLastRequest ==
    pc = "get" =>
        IF wait_log.first THEN wait_log.wait_time = 0
        ELSE wait_log.elapsed + wait_log.wait_time >= min_interval(variant)

C7_Witness ==
    /\ pc = "get" /\ ~wait_log.first
    /\ wait_log.elapsed < min_interval(variant)
    /\ wait_log.wait_time = min_interval(variant) - wait_log.elapsed

\* the chapters fetched so far that succeeded, in the order fetched
Succeeded == SelectSeq(outcomes, LAMBDA o : o.ok)

\* the title a record of chapter n carries
TitleOf(n) ==
    IF Config.SIMPLE_CHAPTER_NAMES
    THEN <<"C", "h", "a", "p", "t", "e", "r", " ">> \o NumStr(n)
    ELSE <<"N", "o", " ">> \o NumStr(n)

\* C8: a chapter that ends in Failure is skipped and the run goes on: the
\* chapters are fetched in ascending order, the record list holds exactly the
\* succeeded chapters in that order, and (full variant) the success and
\* failure counts are the numbers of succeeded and failed chapters, which
\* add up to the size of the range at the end.
C8_FailedChaptersAreSkipped ==
    pc \in {"loop", "done"} =>
        /\ \A i \in 1..Len(outcomes) :
              outcomes[i].num = inputs.start_chapter + i - 1
        /\ Len(chapters_data) = Len(Succeeded)
        /\ \A i \in 1..Len(Succeeded) :
              chapters_data[i].title = TitleOf(Succeeded[i].num)
        /\ variant = "full" =>
              /\ progress.success = Len(Succeeded)
              /\ progress.failures = Len(outcomes) - Len(Succeeded)
        /\ pc = "done" =>
              Len(outcomes) = inputs.end_chapter - inputs.start_chapter + 1

C8_Witness ==
    /\ variant = "full" /\ pc = "done"
    /\ [i \in 1..Len(outcomes) |-> outcomes[i].ok] = <<TRUE, FALSE, TRUE>>
    /\ Len(chapters_data) = 2
    /\ progress.success = 2 /\ progress.failures = 1

\* C9: every chapter record handed on has a non-empty title and at least one
\* narrative paragraph: an attempt that classified zero narrative paragraphs
\* is never returned as Success and never appended.
C9_RecordsHaveTitleAndNarrative ==
    /\ \A i \in 1..Len(chapters_data) :
          chapters_data[i].title # <<>> /\ Len(chapters_data[i].content) >= 1
    /\ (pc = "collect" /\ ~result.none) =>
          (result.chapter_title # <<>> /\ Len(result.content) >= 1)

C9_Witness ==
    /\ pc = "collect" /\ kinds.no_paragraphs /\ result.none
    /\ Len(chapters_data) >= 1

ValidationErrorPresent ==
    \/ args.empty_required \/ args.start > args.end \/ ~args.url_valid
    \/ inputs.start_chapter > inputs.end_chapter \/ ~inputs.url_valid

\* no request has been issued in this run
NothingFetched ==
    rate_limiter.last_request_times = <<>> /\ gets = 0 /\ outcomes = <<>>

\* C11: a validation error (malformed URL, empty required input, start
\* chapter greater than end chapter) is fatal, from flags or from prompts
\* alike: no fetch is ever issued, the run never gets past the point where
\* the error is raised, and it ends aborted with the error reported.
C11_ValidationErrorsAreFatal ==
    ValidationErrorPresent =>
        /\ NothingFetched
        /\ pc \in {"input", "loop", "aborted"}
        /\ pc = "aborted" => message = "error"

\* the step is the arrival of an external interrupt
InterruptStep == message' \in {"cancelled", "traceback"} /\ message' # message

Interrupted == message \in {"cancelled", "traceback"}

\* C13: an external interrupt during a rate-limiter wait, a fetch or a retry
\* sleep ends the whole run there: the run is aborted, it takes no further
\* step with the chapters collected so far, and no e-book file exists.
C13_InterruptAbortsWithoutEbook ==
    Interrupted => (pc = "aborted" /\ epub_file = "none")

C13_Witness ==
    /\ Interrupted /\ pc = "aborted" /\ epub_file = "none"
    /\ Len(chapters_data) >= 1 /\ chapter_num <= inputs.end_chapter

\* the settings of the footnote and chapter-notes flags
FlagSettings ==
    [INCLUDE_FOOTNOTES : BOOLEAN, INCLUDE_CHAPTER_NOTES : BOOLEAN,
     SIMPLE_CHAPTER_NAMES : {FALSE}]

\* C14: the footnote and chapter-notes flags gate only rendering: for a page
\* that yields a chapter record (it has narrative), the footnote table and
\* the trailing-note list collected are the same under every setting of the
\* two flags.
C14_FlagsDoNotGateCollection ==
    \A i \in 1..Len(classified) : \A cfg \in FlagSettings :
        LET other == ClassifierOutput(variant, fragment, cfg)
        IN  classified[i].paragraphs # <<>> =>
                /\ other.footnotes = classified[i].footnotes
                /\ other.after_separator = classified[i].after_separator

IsSeparator(p) == Strip(p.text) = s_sep

HasSeparator(f) == \E i \in 1..Len(f) : IsSeparator(f[i])

\* the paragraphs of container f, other than separators, that have exactly k
\* separators before them (seen: the separators passed so far)
RECURSIVE ZoneParas(_, _, _)
ZoneParas(f, seen, k) ==
    IF f = <<>> THEN <<>>
    ELSE IF IsSeparator(Head(f)) THEN ZoneParas(Tail(f), seen + 1, k)
    ELSE (IF seen = k THEN <<Head(f)>> ELSE <<>>) \o ZoneParas(Tail(f), seen, k)

\* C15: for a page with || paragraphs (separator variant) the narrative is
\* exactly the paragraphs between the first and the second ||: no || is
\* narrative, the paragraphs before the first || are not narrative, and
\* nothing after the second || is narrative, whatever further || follow.
C15_NarrativeIsBetweenSeparators ==
    (variant = "simple" /\ HasSeparator(fragment)) =>
        \A i \in 1..Len(classified) :
            /\ \A j \in 1..Len(classified[i].paragraphs) :
                  ~IsSeparator(classified[i].paragraphs[j])
            /\ classified[i].paragraphs = ZoneParas(fragment, 0, 1)

\* paragraph p of a container is matched by the note-detector
NoteDetected(p) == _is_note_or_message(Strip(p.text), p)

\* C16: a paragraph matched by the note-detector (a strong/b child holding a
\* note phrase, or text holding a listed phrase, in any letter case) is never
\* in the narrative list, under every setting of the flags.
C16_DetectedNotesAreNotNarrative ==
    variant = "full" =>
        \A i \in 1..Len(classified) :
            \A j \in 1..Len(classified[i].paragraphs) :
                ~NoteDetected(classified[i].paragraphs[j])

C16_Witness ==
    /\ variant = "full" /\ pc = "classified"
    /\ Config.INCLUDE_FOOTNOTES /\ ~Config.INCLUDE_CHAPTER_NOTES
    /\ fragment = <<p_story, p_lower_note>>
    /\ NoteDetected(p_lower_note)
    /\ classified[1].paragraphs = <<p_story>>

\* C17: a paragraph whose trimmed text is a bare chapter or section number
\* (digits, digits and a period, or "chapter" and digits) is never in the
\* narrative list.
C17_BareNumbersAreNotNarrative ==
    \A i \in 1..Len(classified) :
        \A j \in 1..Len(classified[i].paragraphs) :
            ~_is_chapter_number(classified[i].paragraphs[j].text)

IsFootnoteKey(sup, footnotes) == Strip(sup.ref) \in DictKeys(footnotes)

\* C19: the formatted content holds the narrative paragraphs in document
\* order; with footnotes enabled a superscript marker is linked to
\* #footnote-{key} exactly when its trimmed text is a key of the footnote
\* table; with footnotes disabled no superscript marker and no footnote link
\* is left in the content.
C19_FormattingLinksOrStripsMarkers ==
    \A i \in 1..Len(classified) :
        LET c == classified[i] IN
        /\ Len(c.content) = Len(c.paragraphs)
        /\ \A j \in 1..Len(c.paragraphs) :
              /\ c.content[j].text = c.paragraphs[j].text
              /\ IF Config.INCLUDE_FOOTNOTES
                 THEN /\ Len(c.content[j].sups) = Len(c.paragraphs[j].sups)
                      /\ \A k \in 1..Len(c.paragraphs[j].sups) :
                            c.content[j].sups[k].link =
                                IF IsFootnoteKey(c.paragraphs[j].sups[k], c.footnotes)
                                THEN Strip(c.paragraphs[j].sups[k].ref)
                                ELSE <<>>
                 ELSE c.content[j].sups = <<>>

\* position i of the URL starts chapter-<digits>, the digits ending at j
TokenAt(url, i, j) ==
    /\ i + Len(s_chapter_dash) <= j /\ j <= Len(url)
    /\ SubSeq(url, i, i + Len(s_chapter_dash) - 1) = s_chapter_dash
    /\ \A k \in (i + Len(s_chapter_dash))..j : url[k] \in Digits
    /\ j = Len(url) \/ url[j + 1] \notin Digits

HasToken(url) == \E i, j \in 1..Len(url) : TokenAt(url, i, j)

\* C20: with simplified naming set and a title element on the page, the
\* title of a URL holding chapter-<digits> is "Chapter <digits>" whatever the
\* title text of the page is; only a URL without that token gives the
\* trimmed title text of the page.
C20_SimpleNamesComeFromUrl ==
    (titled.done /\ Config.SIMPLE_CHAPTER_NAMES /\ titled.title_elem.present) =>
        IF HasToken(titled.url)
        THEN \E i, j \in 1..Len(titled.url) :
                /\ TokenAt(titled.url, i, j)
                /\ titled.chapter_title =
                      <<"C", "h", "a", "p", "t", "e", "r", " ">>
                      \o SubSeq(titled.url, i + Len(s_chapter_dash), j)
        ELSE titled.chapter_title = Strip(titled.title_elem.text)

C20_Witness ==
    /\ titled.done /\ Config.SIMPLE_CHAPTER_NAMES
    /\ titled.title_elem.text = <<"C", "h", "a", "p", "t", "e", "r", " ", "9">>
    /\ HasToken(titled.url)
    /\ titled.chapter_title = <<"C", "h", "a", "p", "t", "e", "r", " ", "1", "2">>

\* the text of a trailing note holds a footnote-return marker
HoldsReturnMarker(text) == Contains(text, <<RetMark>>)

\* C21: in the trailing zone of the separator variant a paragraph holding a
\* footnote-return marker is a footnote definition and never a trailing
\* note: under every setting of the flags no entry of the trailing-notes
\* list holds a footnote-return marker.
C21_ReturnParagraphsAreNotTrailingNotes ==
    variant = "simple" =>
        \A i \in 1..Len(classified) :
            \A j \in 1..Len(classified[i].after_separator) :
                ~HoldsReturnMarker(classified[i].after_separator[j])

\* the chapters of the range [start, end]
RangeSize == inputs.end_chapter - inputs.start_chapter + 1

\* the calls of get_chapter_content that have returned are those for start,
\* start + 1, ... in this order, one each; the call in progress or the next
\* one is for the number after them; and one call issues at most
\* MAX_RETRIES GETs
CallsInOrder ==
    pc # "input" =>
        /\ \A i \in 1..Len(outcomes) :
              outcomes[i].num = inputs.start_chapter + i - 1
        /\ Len(outcomes) <= RangeSize
        /\ chapter_num = inputs.start_chapter + Len(outcomes)
        /\ pc = "done" => Len(outcomes) = RangeSize
        /\ gets <= MAX_RETRIES

\* main has returned or has been ended by an exception
RunEnded == pc \in {"done", "aborted"}

\* the steps one call of get_chapter_content and its collection take at most
StepsPerChapter == 3 * MAX_RETRIES + 3

\* the steps the current chapter can still take, by the position in the
\* retry loop
Position ==
    CASE pc = "wait" -> 3 * (MAX_RETRIES - attempt) + 1
      [] pc = "get" -> 3 * (MAX_RETRIES - attempt)
      [] pc = "sleep" -> 3 * (MAX_RETRIES - attempt) - 1
      [] pc = "collect" -> 1
      [] pc = "loop" -> StepsPerChapter - 1
      [] OTHER -> 0

\* a bound on the steps the run can still take
StepsLeft ==
    IF pc = "input" THEN StepsPerChapter * (MaxChapters + 1)
    ELSE IF RunEnded THEN 0
    ELSE StepsPerChapter * (inputs.end_chapter - chapter_num + 1) + Position

\* C22: the driver calls get_chapter_content exactly once for each n of
\* [start, end], in ascending order, and never again for a chapter whose
\* call returned a failure; a call issues at most 3 GETs; and for every
\* range and every sequence of fetch outcomes the chapter loop terminates:
\* the run is never stuck before its end, and every step lowers a bound on
\* the steps left, which is never negative.
C22_EachChapterIsFetchedOnce ==
    /\ [](CallsInOrder /\ StepsLeft >= 0 /\ (~RunEnded => ENABLED Next))
    /\ [][StepsLeft' < StepsLeft]_vars

\* the same termination as an eventuality of the run whose steps are taken
RunTerminates == <>RunEnded

C22_Witness ==
    /\ pc = "done"
    /\ inputs.start_chapter = 1 /\ inputs.end_chapter = MaxChapters
    /\ Len(outcomes) = MaxChapters
    /\ ~outcomes[2].ok /\ outcomes[2].exhausted
    /\ outcomes[MaxChapters].ok /\ outcomes[MaxChapters].num = MaxChapters

\* C23: the instants at which two consecutive wait() calls return are at
\* least 1/rate seconds apart: the time the limiter records for a request
\* is the time the request is released, not the time wait() was entered.
C23_ReleasesAreSpaced ==
    (wait_log.ctx # "none" /\ release_log.gap # -1) =>
        release_log.gap >= min_interval(variant)

\* the anchors the links of chapter document doc point to: the links
\* wrapped around the markers of the narrative and the return links of the
\* footnotes
Hrefs(doc) ==
    UNION {{s_footnote_dash \o doc.content[i].sups[j].link :
               j \in {k \in 1..Len(doc.content[i].sups) :
                          doc.content[i].sups[k].link # <<>>}} :
           i \in 1..Len(doc.content)}
    \cup {doc.footnotes[i].href : i \in 1..Len(doc.footnotes)}

\* the ids of the elements of doc: the code puts one on each footnote and
\* on nothing else
ElementIds(doc) == {doc.footnotes[i].id : i \in 1..Len(doc.footnotes)}

\* C24: in every rendered chapter document every internal link has a
\* target: each #footnote-{k} link of the narrative has an element with id
\* footnote-{k} in the same chapter, and each footnote's return link
\* #ref-{k} has an element with id ref-{k}.
C24_InternalLinksHaveTargets ==
    \A i \in 1..Len(book) : Hrefs(book[i]) \subseteq ElementIds(book[i])

====
